---- MODULE Spec2Model ----
(***************************************************************************)
(* Ceres bundle adjustment (arrows/ceres/bundle_adjust.cxx).               *)
(*                                                                         *)
(* The state is the algorithm object's private data d_, the caller's two   *)
(* in/out references `cameras` and `landmarks` with the objects they can   *)
(* designate (collections, cameras, intrinsics, landmarks), the track set, *)
(* and the locals of one optimize call.  Object references are naturals,   *)
(* 0 being the null pointer.                                               *)
(***************************************************************************)
EXTENDS Integers, Sequences, FiniteSets, TLC

\* ---- bounds of the model ----
MaxFrame == 2
MaxIterations == 1
MaxCalls == 2

FrameIds == 1..MaxFrame

\* the track IDs of the landmarks and tracks
TrackIds == {1, 2}

\* the intrinsics instances the input cameras can reference
IntrinsicsRefs == {1, 2}

\* ---- program constants ----
\* number of values of a landmark position (loc.data(), loc.data()+3)
LandmarkBlockSize == 3
\* number of intrinsic parameters before the distortion coefficients
NumBaseIntrinsics == 5
\* number of extrinsic parameters of one camera
NumExtrinsics == 6

NullRef == 0
\* the collections the caller passes in, and the ones optimize constructs
InputRef == 1
OutputRef == 2

\* ---- general helpers ----
Min(S) == CHOOSE x \in S : \A y \in S : x <= y

RECURSIVE SetToSeq(_)
\* the elements of a set of integers in ascending order (std::map iteration)
SetToSeq(S) == IF S = {} THEN <<>>
               ELSE LET m == Min(S) IN <<m>> \o SetToSeq(S \ {m})

Range(s) == {s[i] : i \in DOMAIN s}

IndexOf(s, x) == CHOOSE i \in DOMAIN s : s[i] = x

\* ---- configuration (class bundle_adjust::priv) ----
LossFunctionTypes == {"TRIVIAL_LOSS", "HUBER_LOSS"}
LensDistortionTypes == {"NO_DISTORTION", "POLYNOMIAL_RADIAL_DISTORTION"}

\* number of distortion coefficients of a lens-distortion model
num_distortion_params(type) ==
    IF type = "POLYNOMIAL_RADIAL_DISTORTION" THEN 2 ELSE 0

\* the intrinsic-parameter indices held constant, in ascending order
enumerate_constant_intrinsics(d) ==
    LET ndp == num_distortion_params(d.lens_distortion_type) IN
       (IF ~d.optimize_focal_length THEN <<0>> ELSE <<>>)
    \o (IF ~d.optimize_principal_point THEN <<1, 2>> ELSE <<>>)
    \o (IF ~d.optimize_aspect_ratio THEN <<3>> ELSE <<>>)
    \o (IF ~d.optimize_skew THEN <<4>> ELSE <<>>)
    \o (IF ~d.optimize_dist_k1 /\ ndp > 0 THEN <<5>> ELSE <<>>)
    \o (IF ~d.optimize_dist_k2 /\ ndp > 1 THEN <<6>> ELSE <<>>)

\* the loss function the factory creates: a null pointer for the trivial loss
LossFunctionFactory(type, scale) ==
    IF type = "TRIVIAL_LOSS" THEN NullRef ELSE 1

\* which intrinsic parameters the camera options let the solver optimize
IntrinsicFlagSets ==
    { [fl |-> TRUE,  pp |-> TRUE,  ar |-> TRUE,  sk |-> TRUE,  k1 |-> TRUE,  k2 |-> TRUE],
      [fl |-> TRUE,  pp |-> FALSE, ar |-> FALSE, sk |-> FALSE, k1 |-> TRUE,  k2 |-> TRUE],
      [fl |-> FALSE, pp |-> FALSE, ar |-> FALSE, sk |-> FALSE, k1 |-> FALSE, k2 |-> FALSE] }

\* (of the solver options: whether they are valid, and the options
\* set_configuration writes or the solver-specific group reports)
priv(loss, valid, lens, flags) ==
    [ verbose                  |-> FALSE,
      loss_function_type       |-> loss,
      loss_function_scale      |-> 1,
      options_valid            |-> valid,
      minimizer_progress_to_stdout |-> FALSE,
      logging_type             |-> "PER_MINIMIZER_ITERATION",
      max_num_iterations       |-> 50,
      lens_distortion_type     |-> lens,
      optimize_focal_length    |-> flags.fl,
      optimize_principal_point |-> flags.pp,
      optimize_aspect_ratio    |-> flags.ar,
      optimize_skew            |-> flags.sk,
      optimize_dist_k1         |-> flags.k1,
      optimize_dist_k2         |-> flags.k2 ]

\* ---- the entities ----
\* the intrinsics instance k of the input: instance 1 carries two distortion
\* coefficients, the others none
InputIntrinsics(k) ==
    [ focal_length    |-> 10 * k,
      principal_point |-> <<10 * k + 1, 10 * k + 2>>,
      aspect_ratio    |-> 10 * k + 3,
      skew            |-> 10 * k + 4,
      dist_coeffs     |-> IF k = 1 THEN <<10 * k + 5, 10 * k + 6>> ELSE <<>> ]

InputCamera(f, k) ==
    [ rotation   |-> <<100 * f, 100 * f + 1, 100 * f + 2>>,
      center     |-> <<100 * f + 3, 100 * f + 4, 100 * f + 5>>,
      intrinsics |-> k ]

InputLandmark(t) ==
    [ loc   |-> <<1000 * t, 1000 * t + 1, 1000 * t + 2>>,
      attrs |-> 7000 + t ]

\* a track history holds at most one state per frame, in ascending frame order
Histories == { SetToSeq(S) : S \in SUBSET FrameIds }

Track(t, h) == [ id |-> t, history |-> [ j \in DOMAIN h |-> [frame_id |-> h[j]] ] ]

RECURSIVE TrackSetsOf(_)
\* the track vectors with track IDs among `ids`, distinct and ascending
TrackSetsOf(ids) ==
    IF ids = {} THEN { <<>> }
    ELSE LET t    == Min(ids)
             rest == TrackSetsOf(ids \ {t})
         IN  rest \cup { <<Track(t, h)>> \o r : h \in Histories, r \in rest }

TrackSets == TrackSetsOf(TrackIds)

\* the intrinsics references of the cameras of the frames F; the first camera
\* references instance 1
IntrinsicsAssignments(F) ==
    { a \in [F -> IntrinsicsRefs] : F # {} => a[Min(F)] = 1 }


\* ---- parameter extraction and marshalling (camera_options) ----
\* the first n elements of s, zero-padded when s is shorter
Resize(s, n) == [ i \in 1..n |-> IF i <= Len(s) THEN s[i] ELSE 0 ]

extract_camera_extrinsics(cam) == cam.rotation \o cam.center

extract_camera_intrinsics(K, ndp) ==
    <<K.focal_length, K.principal_point[1], K.principal_point[2],
      K.aspect_ratio, K.skew>> \o Resize(K.dist_coeffs, ndp)

RECURSIVE UniqueIntrinsics(_, _, _)
\* the distinct intrinsics instances of the cameras of `frames` (a sequence of
\* frame IDs), in the order of their first appearance, appended to `seen`
UniqueIntrinsics(frames, camobjs, seen) ==
    IF frames = <<>> THEN seen
    ELSE LET K == camobjs[Head(frames)].intrinsics IN
         UniqueIntrinsics(Tail(frames), camobjs,
                          IF K \in Range(seen) THEN seen ELSE Append(seen, K))

\* ext_params: frame -> extrinsics; int_params: the unique intrinsics vectors;
\* int_map: frame -> index into int_params (1-based here)
extract_camera_parameters(cmap, camobjs, introbjs, d) ==
    LET ndp    == num_distortion_params(d.lens_distortion_type)
        cam(f) == camobjs[cmap[f]]
        camOf  == [ f \in DOMAIN cmap |-> cam(f) ]
        groups == UniqueIntrinsics(SetToSeq(DOMAIN cmap), camOf, <<>>)
    IN  [ ext_params |-> [ f \in DOMAIN cmap |-> extract_camera_extrinsics(cam(f)) ],
          int_params |-> [ g \in DOMAIN groups |->
                             extract_camera_intrinsics(introbjs[groups[g]], ndp) ],
          int_map    |-> [ f \in DOMAIN cmap |-> IndexOf(groups, cam(f).intrinsics) ] ]

update_camera_intrinsics(params, ndp) ==
    [ focal_length    |-> params[1],
      principal_point |-> <<params[2], params[3]>>,
      aspect_ratio    |-> params[4],
      skew            |-> params[5],
      dist_coeffs     |-> [ i \in 1..ndp |-> params[NumBaseIntrinsics + i] ] ]

update_camera_extrinsics(params, K) ==
    [ rotation   |-> SubSeq(params, 1, 3),
      center     |-> SubSeq(params, 4, NumExtrinsics),
      intrinsics |-> K ]

\* references of the objects update_camera_parameters constructs
NewIntrinsicsRef(g) == Cardinality(IntrinsicsRefs) + g
NewCameraRef(f) == MaxFrame + f
NewLandmarkRef(t) == Cardinality(TrackIds) + t

\* ---- the problem (::ceres::Problem) ----
IntrBlock(i) == [ kind |-> "intrinsics", key |-> i ]
CamBlock(f) == [ kind |-> "extrinsics", key |-> f ]
LmBlock(t) == [ kind |-> "landmark", key |-> t ]

\* a problem: its residual blocks, the blocks set constant, the local
\* parameterizations set, and the blocks its constraint operations were called
\* on, one entry per call
EmptyProblem ==
    [ residual_blocks |-> <<>>, constant_blocks |-> {}, parameterizations |-> {},
      constrained |-> <<>> ]

\* the parameter blocks the problem holds: those its residual blocks name
ParameterBlocks(p) ==
    UNION { { r.intr, r.cam, r.lm } : r \in Range(p.residual_blocks) }

AddResidualBlock(p, cost, loss, intr, cam, lm) ==
    [ p EXCEPT !.residual_blocks =
          Append(@, [ cost |-> cost, loss |-> loss, intr |-> intr, cam |-> cam, lm |-> lm ]) ]

\* the problem aborts the process when asked to constrain a block it does not hold
HasParameterBlock(p, b) == b \in ParameterBlocks(p)

\* mutant: the block is not set constant
SetParameterBlockConstantIgnored(p, b) == p

SetParameterBlockConstant(p, b) ==
    [ p EXCEPT !.constant_blocks = @ \cup {b}, !.constrained = Append(@, b) ]

SetParameterization(p, b, size, constant) ==
    [ p EXCEPT !.parameterizations =
                   @ \cup { [ block |-> b, size |-> size, constant |-> constant ] },
               !.constrained = Append(@, b) ]

\* the solver may move the value at (0-based) index i of block b
IsFree(p, b, i) ==
    /\ b \in ParameterBlocks(p)
    /\ b \notin p.constant_blocks
    /\ \A q \in p.parameterizations : q.block = b => i \notin Range(q.constant)

BlockKinds == {"intrinsics", "extrinsics", "landmark"}

\* the parameter vector v of block b after n solver iterations that move the
\* free values of the blocks of the kinds in `moved`
Iterate(p, b, v, n, moved) ==
    [ i \in DOMAIN v |->
        IF b.kind \in moved /\ IsFree(p, b, i - 1) THEN v[i] + n ELSE v[i] ]


\* ---- state ----
VARIABLES
    d_,                 \* the algorithm's private data (configuration)
    cameras,            \* the caller's camera_map_sptr&: a collection reference
    landmarks,          \* the caller's landmark_map_sptr&: a collection reference
    tracks,             \* the caller's track_set_sptr
    camera_maps,        \* camera collections: reference -> (frame -> camera reference)
    camera_objs,        \* camera objects: reference -> camera
    intrinsics_objs,    \* camera intrinsics objects: reference -> intrinsics
    landmark_maps,      \* landmark collections: reference -> (track ID -> landmark reference)
    landmark_objs,      \* landmark objects: reference -> landmark
    track_sets,         \* track sets: reference -> vector of tracks
    pc,                 \* position of the optimize call
    cams, lms, trks,    \* optimize's copies of the containers' contents
    landmark_params, camera_params, camera_intr_params, frame_to_intr_map,
    problem, constant_intrinsics,
    loss_func, loss_func_used,
    loss_deleted,       \* how many times the loss function instance was destroyed
    solver_calls,       \* how many times ::ceres::Solve was invoked
    summary,            \* the solver's summary
    in_config,          \* the configuration block last passed to set_configuration
    calls               \* how many optimize calls the caller has made

heap == <<camera_maps, camera_objs, intrinsics_objs, landmark_maps, landmark_objs, track_sets>>
refs == <<cameras, landmarks, tracks>>
containers == <<cams, lms, trks>>
params == <<landmark_params, camera_params, camera_intr_params, frame_to_intr_map>>
loss == <<loss_func, loss_func_used, loss_deleted>>
solver == <<solver_calls, summary>>
caller == <<in_config, calls>>
vars == <<d_, heap, refs, pc, containers, params, problem, constant_intrinsics, loss, solver,
          caller>>

EmptyMap == <<>>

\* ---- the caller's inputs ----
CameraInputs ==
    { [null |-> TRUE, K |-> EmptyMap] }
    \cup { [null |-> FALSE, K |-> a] : a \in UNION { IntrinsicsAssignments(F) : F \in SUBSET FrameIds } }

LandmarkInputs ==
    { [null |-> TRUE, ids |-> {}] } \cup { [null |-> FALSE, ids |-> T] : T \in SUBSET TrackIds }

TrackInputs ==
    { [null |-> TRUE, trks |-> <<>>] } \cup { [null |-> FALSE, trks |-> ts] : ts \in TrackSets }

Init ==
    /\ \E lt \in LossFunctionTypes, valid \in BOOLEAN, lens \in LensDistortionTypes,
          flags \in IntrinsicFlagSets :
            d_ = priv(lt, valid, lens, flags)
    /\ \E c \in CameraInputs :
        /\ cameras = IF c.null THEN NullRef ELSE InputRef
        /\ camera_maps = IF c.null THEN EmptyMap
                         ELSE InputRef :> [ f \in DOMAIN c.K |-> f ]
        /\ camera_objs = [ f \in DOMAIN c.K |-> InputCamera(f, c.K[f]) ]
        /\ intrinsics_objs = [ k \in Range(c.K) |-> InputIntrinsics(k) ]
    /\ \E l \in LandmarkInputs :
        /\ landmarks = IF l.null THEN NullRef ELSE InputRef
        /\ landmark_maps = IF l.null THEN EmptyMap
                           ELSE InputRef :> [ t \in l.ids |-> t ]
        /\ landmark_objs = [ t \in l.ids |-> InputLandmark(t) ]
    /\ \E t \in TrackInputs :
        /\ tracks = IF t.null THEN NullRef ELSE InputRef
        /\ track_sets = IF t.null THEN EmptyMap ELSE InputRef :> t.trks
    /\ pc = "call"
    /\ cams = EmptyMap /\ lms = EmptyMap /\ trks = <<>>
    /\ landmark_params = EmptyMap /\ camera_params = EmptyMap
    /\ camera_intr_params = <<>> /\ frame_to_intr_map = EmptyMap
    /\ problem = EmptyProblem
    /\ constant_intrinsics = <<>>
    /\ loss_func = NullRef /\ loss_func_used = FALSE /\ loss_deleted = 0
    /\ solver_calls = 0
    /\ summary = [ num_iterations |-> 0 ]
    /\ in_config = EmptyMap
    /\ calls = 1

\* mutant: the track set is not tested
MissingInputNoTracks(c, l, t) == c = NullRef \/ l = NullRef

\* line 197: the test for missing input
MissingInput(c, l, t) == c = NullRef \/ l = NullRef \/ t = NullRef

\* ---- the configuration block ----
\* a configuration block maps keys to strings; values are written with the
\* stream output and read back with the stream input of their type
BoolToString(b) == IF b THEN "true" ELSE "false"
StringToBool(s) == s \in {"true", "yes", "on", "1"}
MaxConfigNumber == 50
StringToNat(s) == CHOOSE n \in 0..MaxConfigNumber : ToString(n) = s

\* the keys of the solver-specific option group
SolverKeys == {"max_num_iterations"}

\* the keys of the camera-constraint option group
CameraKeys == {"lens_distortion_type", "optimize_focal_length", "optimize_principal_point",
               "optimize_aspect_ratio", "optimize_skew", "optimize_dist_k1",
               "optimize_dist_k2"}

\* the keys get_configuration writes itself, lines 126-133
AlgorithmKeys == {"verbose", "loss_function_type", "loss_function_scale"}

ConfigKeys == AlgorithmKeys \cup SolverKeys \cup CameraKeys

\* solver_options::get_configuration: the solver options as configuration values
solver_options_get_configuration(d) ==
    [ k \in SolverKeys |-> ToString(d.max_num_iterations) ]

\* camera_options::get_configuration: the camera options as configuration values
camera_options_get_configuration(d) ==
    [ k \in CameraKeys |->
        CASE k = "lens_distortion_type"     -> d.lens_distortion_type
          [] k = "optimize_focal_length"    -> BoolToString(d.optimize_focal_length)
          [] k = "optimize_principal_point" -> BoolToString(d.optimize_principal_point)
          [] k = "optimize_aspect_ratio"    -> BoolToString(d.optimize_aspect_ratio)
          [] k = "optimize_skew"            -> BoolToString(d.optimize_skew)
          [] k = "optimize_dist_k1"         -> BoolToString(d.optimize_dist_k1)
          [] k = "optimize_dist_k2"         -> BoolToString(d.optimize_dist_k2) ]

\* camera_options::set_configuration: the camera options read from a block
camera_options_set_configuration(d, config) ==
    [ d EXCEPT
        !.lens_distortion_type     = config["lens_distortion_type"],
        !.optimize_focal_length    = StringToBool(config["optimize_focal_length"]),
        !.optimize_principal_point = StringToBool(config["optimize_principal_point"]),
        !.optimize_aspect_ratio    = StringToBool(config["optimize_aspect_ratio"]),
        !.optimize_skew            = StringToBool(config["optimize_skew"]),
        !.optimize_dist_k1         = StringToBool(config["optimize_dist_k1"]),
        !.optimize_dist_k2         = StringToBool(config["optimize_dist_k2"]) ]

\* lines 120-142: the configuration block of the algorithm's current state
get_configuration(d) ==
    [ k \in ConfigKeys |->
        CASE k = "verbose"             -> BoolToString(d.verbose)
          [] k = "loss_function_type"  -> d.loss_function_type
          [] k = "loss_function_scale" -> ToString(d.loss_function_scale)
          [] k \in SolverKeys          -> solver_options_get_configuration(d)[k]
          [] k \in CameraKeys          -> camera_options_get_configuration(d)[k] ]

\* config->merge_config(in_config): the values of in_config replace those of config
merge_config(config, in) ==
    [ k \in DOMAIN config \cup DOMAIN in |-> IF k \in DOMAIN in THEN in[k] ELSE config[k] ]

\* lines 146-172: the private data after set_configuration(in); the camera
\* options are read twice (lines 168 and 171), the solver options never
set_configuration(d, in) ==
    LET config  == merge_config(get_configuration(d), in)
        verbose == StringToBool(config["verbose"])
        own     == [ d EXCEPT
                       !.verbose = verbose,
                       !.minimizer_progress_to_stdout = verbose,
                       !.logging_type = IF verbose THEN "PER_MINIMIZER_ITERATION"
                                                   ELSE "SILENT",
                       !.loss_function_type = config["loss_function_type"],
                       !.loss_function_scale = StringToNat(config["loss_function_scale"]) ]
    IN camera_options_set_configuration(camera_options_set_configuration(own, config), config)

\* the values a caller's configuration block gives the keys it sets
ConfigValues(k) ==
    CASE k \in {"verbose", "optimize_focal_length"} -> {"true", "false"}
      [] k = "loss_function_type"   -> LossFunctionTypes
      [] k = "loss_function_scale"  -> {"1", "2"}
      [] k = "max_num_iterations"   -> {"10", "50"}
      [] k = "lens_distortion_type" -> LensDistortionTypes

\* the keys a caller's configuration block may set
InConfigKeys == {"verbose", "loss_function_type", "loss_function_scale",
                 "max_num_iterations", "lens_distortion_type", "optimize_focal_length"}

RECURSIVE ConfigBlocksOver(_)
\* the configuration blocks that set some of the keys in K
ConfigBlocksOver(K) ==
    IF K = {} THEN { EmptyMap }
    ELSE LET k == CHOOSE x \in K : TRUE
             rest == ConfigBlocksOver(K \ {k})
         IN rest \cup { (k :> v) @@ c : v \in ConfigValues(k), c \in rest }

ConfigBlocks == ConfigBlocksOver(InConfigKeys)

\* ---- set_configuration, lines 146-172, between optimize calls ----
SetConfiguration ==
    /\ pc \in {"call", "returned"}
    /\ \E c \in ConfigBlocks :
        /\ d_' = set_configuration(d_, c)
        /\ in_config' = c
    /\ UNCHANGED <<heap, refs, pc, containers, params, problem, constant_intrinsics,
                   loss, solver, calls>>

\* Check that the algorithm's current configuration is valid
check_configuration(d) == d.options_valid

\* ---- optimize, lines 197-201: missing input ----
OptimizeMissingInput ==
    /\ pc = "call"
    /\ MissingInput(cameras, landmarks, tracks)
    /\ pc' = "returned"
    /\ UNCHANGED <<d_, caller, heap, refs, containers, params, problem, constant_intrinsics,
                   loss, solver>>

\* mutant: the parameter vectors are allocated but the locations are not copied
ExtractLandmarkParamsUnfilled(lmap, lmobjs) ==
    [ t \in DOMAIN lmap |-> [ i \in 1..LandmarkBlockSize |-> 0 ] ]

\* mutant: the parameter map outlives the call and keeps the entries it has
ExtractLandmarkParamsKept(lmap, lmobjs) ==
    [ t \in DOMAIN lmap \cup DOMAIN landmark_params |->
        IF t \in DOMAIN landmark_params THEN landmark_params[t]
        ELSE SubSeq(lmobjs[lmap[t]].loc, 1, LandmarkBlockSize) ]

\* landmark locations as parameter vectors
ExtractLandmarkParams(lmap, lmobjs) ==
    [ t \in DOMAIN lmap |-> SubSeq(lmobjs[lmap[t]].loc, 1, LandmarkBlockSize) ]

\* ---- optimize, lines 205-232: extract data from the containers ----
\* (dereferencing a null collection pointer ends the process)
ExtractParameters ==
    /\ pc = "call"
    /\ ~MissingInput(cameras, landmarks, tracks)
    /\ IF cameras = NullRef \/ landmarks = NullRef \/ tracks = NullRef
       THEN /\ pc' = "aborted"
            /\ UNCHANGED <<containers, params>>
       ELSE /\ cams' = camera_maps[cameras]
            /\ lms' = landmark_maps[landmarks]
            /\ trks' = track_sets[tracks]
            /\ landmark_params' = ExtractLandmarkParams(lms', landmark_objs)
            /\ LET e == extract_camera_parameters(cams', camera_objs, intrinsics_objs, d_) IN
                /\ camera_params' = e.ext_params
                /\ camera_intr_params' = e.int_params
                /\ frame_to_intr_map' = e.int_map
            /\ pc' = "create_problem"
    /\ UNCHANGED <<d_, caller, heap, refs, problem, constant_intrinsics, loss, solver>>

\* ---- optimize, lines 234-244: the problem, the constant intrinsics, the loss ----
CreateProblem ==
    /\ pc = "create_problem"
    /\ problem' = EmptyProblem
    /\ constant_intrinsics' = enumerate_constant_intrinsics(d_)
    /\ loss_func' = LossFunctionFactory(d_.loss_function_type, d_.loss_function_scale)
    /\ loss_func_used' = FALSE
    /\ pc' = "add_residuals"
    /\ UNCHANGED <<d_, caller, heap, refs, containers, params, loss_deleted, solver>>

\* the cost function of one observation: the feature location of state j of track i
create_cost_func(type, i, j) == [ type |-> type, obs |-> <<i, j>> ]

RECURSIVE HistoryResidualsBreak(_, _, _)
\* mutant: the loop over the history stops at the first state of an absent frame
HistoryResidualsBreak(st, i, j) ==
    IF j > Len(trks[i].history) THEN st
    ELSE LET ts == trks[i].history[j] IN
         IF ts.frame_id \notin DOMAIN camera_params
         THEN st
         ELSE HistoryResidualsBreak(
                [ problem |-> AddResidualBlock(st.problem,
                                  create_cost_func(d_.lens_distortion_type, i, j),
                                  loss_func,
                                  IntrBlock(frame_to_intr_map[ts.frame_id]),
                                  CamBlock(ts.frame_id),
                                  LmBlock(trks[i].id)),
                  loss_func_used |-> TRUE ],
                i, j + 1)

RECURSIVE HistoryResiduals(_, _, _)
\* lines 257-274: the states of track i from the j-th on
HistoryResiduals(st, i, j) ==
    IF j > Len(trks[i].history) THEN st
    ELSE LET ts == trks[i].history[j] IN
         IF ts.frame_id \notin DOMAIN camera_params
         THEN HistoryResiduals(st, i, j + 1)
         ELSE HistoryResiduals(
                [ problem |-> AddResidualBlock(st.problem,
                                  create_cost_func(d_.lens_distortion_type, i, j),
                                  loss_func,
                                  IntrBlock(frame_to_intr_map[ts.frame_id]),
                                  CamBlock(ts.frame_id),
                                  LmBlock(trks[i].id)),
                  loss_func_used |-> TRUE ],
                i, j + 1)

RECURSIVE TrackResidualsNoSkip(_, _)
\* mutant: a track whose landmark is absent is not skipped
TrackResidualsNoSkip(st, i) ==
    IF i > Len(trks) THEN st
    ELSE TrackResidualsNoSkip(HistoryResiduals(st, i, 1), i + 1)

RECURSIVE TrackResiduals(_, _)
\* lines 247-275: the tracks from the i-th on
TrackResiduals(st, i) ==
    IF i > Len(trks) THEN st
    ELSE IF trks[i].id \notin DOMAIN landmark_params
         THEN TrackResiduals(st, i + 1)
         ELSE TrackResiduals(HistoryResiduals(st, i, 1), i + 1)

\* ---- optimize, lines 246-275: add the residuals ----
AddResiduals ==
    /\ pc = "add_residuals"
    /\ LET st == TrackResiduals([ problem |-> problem, loss_func_used |-> loss_func_used ], 1) IN
        /\ problem' = st.problem
        /\ loss_func_used' = st.loss_func_used
    /\ pc' = "apply_constraints"
    /\ UNCHANGED <<d_, caller, heap, refs, containers, params, constant_intrinsics, loss_func,
                   loss_deleted, solver>>

RECURSIVE ConstrainIntrinsicsExceeds(_, _)
\* mutant: the whole block is set constant only when the list is longer than
\* the block
ConstrainIntrinsicsExceeds(st, g) ==
    LET ndp == num_distortion_params(d_.lens_distortion_type) IN
    IF g > Len(camera_intr_params) \/ st.aborted THEN st
    ELSE IF Len(constant_intrinsics) > NumBaseIntrinsics + ndp
         THEN IF HasParameterBlock(st.problem, IntrBlock(g))
              THEN ConstrainIntrinsicsExceeds(
                     [ st EXCEPT !.problem = SetParameterBlockConstant(@, IntrBlock(g)) ], g + 1)
              ELSE [ st EXCEPT !.aborted = TRUE ]
         ELSE IF constant_intrinsics # <<>>
              THEN IF HasParameterBlock(st.problem, IntrBlock(g))
                   THEN ConstrainIntrinsicsExceeds(
                          [ st EXCEPT !.problem = SetParameterization(@, IntrBlock(g),
                                          NumBaseIntrinsics + ndp, constant_intrinsics) ], g + 1)
                   ELSE [ st EXCEPT !.aborted = TRUE ]
              ELSE ConstrainIntrinsicsExceeds(st, g + 1)

RECURSIVE ConstrainIntrinsics(_, _)
\* lines 278-292: the intrinsics blocks from the g-th on
ConstrainIntrinsics(st, g) ==
    LET ndp == num_distortion_params(d_.lens_distortion_type) IN
    IF g > Len(camera_intr_params) \/ st.aborted THEN st
    ELSE IF Len(constant_intrinsics) > 4 + ndp
         THEN IF HasParameterBlock(st.problem, IntrBlock(g))
              THEN ConstrainIntrinsics(
                     [ st EXCEPT !.problem = SetParameterBlockConstant(@, IntrBlock(g)) ], g + 1)
              ELSE [ st EXCEPT !.aborted = TRUE ]
         ELSE IF constant_intrinsics # <<>>
              THEN IF HasParameterBlock(st.problem, IntrBlock(g))
                   THEN ConstrainIntrinsics(
                          [ st EXCEPT !.problem = SetParameterization(@, IntrBlock(g),
                                          NumBaseIntrinsics + ndp, constant_intrinsics) ], g + 1)
                   ELSE [ st EXCEPT !.aborted = TRUE ]
              ELSE ConstrainIntrinsics(st, g + 1)

\* ---- optimize, lines 277-292: constrain the intrinsics ----
ApplyConstraints ==
    /\ pc = "apply_constraints"
    /\ LET st == ConstrainIntrinsics([ problem |-> problem, aborted |-> FALSE ], 1) IN
        /\ problem' = st.problem
        /\ pc' = IF st.aborted THEN "aborted" ELSE "release_loss"
    /\ UNCHANGED <<d_, caller, heap, refs, containers, params, constant_intrinsics, loss, solver>>

\* mutant: the loss function is deleted whether or not a residual uses it
DeletesLossAlways(lf, used) == lf # NullRef

\* lines 296-299: whether optimize deletes the loss function
DeletesLoss(lf, used) == lf # NullRef /\ ~used

\* ---- optimize, lines 294-299: delete an unused loss function ----
ReleaseLoss ==
    /\ pc = "release_loss"
    /\ loss_deleted' = IF DeletesLoss(loss_func, loss_func_used)
                       THEN loss_deleted + 1 ELSE loss_deleted
    /\ pc' = "solve"
    /\ UNCHANGED <<d_, caller, heap, refs, containers, params, problem, constant_intrinsics,
                   loss_func, loss_func_used, solver>>

\* mutant: the solver is invoked only when the options are valid
SolverCallsIfValid(d, n) == IF d.options_valid THEN n + 1 ELSE n

\* line 302: the solver is invoked whatever the options are
SolverCalls(d, n) == n + 1

\* ---- optimize, lines 301-303: the solver; it returns at once on invalid options ----
Solve ==
    /\ pc = "solve"
    /\ solver_calls' = SolverCalls(d_, solver_calls)
    /\ \E n \in 0..MaxIterations, moved \in SUBSET BlockKinds :
        /\ d_.options_valid \/ n = 0
        /\ n <= d_.max_num_iterations
        /\ n = 0 => moved = {}
        /\ summary' = [ num_iterations |-> n ]
        /\ landmark_params' =
             [ t \in DOMAIN landmark_params |->
                 Iterate(problem, LmBlock(t), landmark_params[t], n, moved) ]
        /\ camera_params' =
             [ f \in DOMAIN camera_params |->
                 Iterate(problem, CamBlock(f), camera_params[f], n, moved) ]
        /\ camera_intr_params' =
             [ g \in DOMAIN camera_intr_params |->
                 Iterate(problem, IntrBlock(g), camera_intr_params[g], n, moved) ]
    /\ pc' = "update_landmarks"
    /\ UNCHANGED <<d_, caller, heap, refs, containers, frame_to_intr_map, problem,
                   constant_intrinsics, loss>>

\* mutant: the location is also set on the landmark object lmi itself
StoreUpdatedLandmarkInPlace(lmobjs, lmi, r, loc) ==
    (r :> [ lmobjs[lmi] EXCEPT !.loc = loc ]) @@ [ lmobjs EXCEPT ![lmi].loc = loc ]

\* lines 308-310: a new landmark object r, the copy of object lmi with the
\* optimized location
StoreUpdatedLandmark(lmobjs, lmi, r, loc) ==
    (r :> [ lmobjs[lmi] EXCEPT !.loc = loc ]) @@ lmobjs

RECURSIVE UpdateLandmarkObjs(_, _, _, _)
\* lines 306-312: the landmark objects after the loop over `ids` (track IDs)
UpdateLandmarkObjs(lmobjs, lmap, lparams, ids) ==
    IF ids = <<>> THEN lmobjs
    ELSE LET t == Head(ids) IN
         UpdateLandmarkObjs(
             StoreUpdatedLandmark(lmobjs, lmap[t], NewLandmarkRef(t), lparams[t]),
             lmap, lparams, Tail(ids))

\* mutant: only the landmarks the problem holds are put in the output
UpdatedLandmarkMapOptimizedOnly(lmap, lparams) ==
    [ t \in { u \in DOMAIN lparams : LmBlock(u) \in ParameterBlocks(problem) } |->
        NewLandmarkRef(t) ]

\* lines 306-312: the local landmark map after the loop (lmi = updated_lm)
UpdatedLandmarkMap(lmap, lparams) ==
    [ t \in DOMAIN lmap \cup DOMAIN lparams |->
        IF t \in DOMAIN lparams THEN NewLandmarkRef(t) ELSE lmap[t] ]

\* ---- optimize, lines 305-313: the optimized landmarks ----
UpdateLandmarks ==
    /\ pc = "update_landmarks"
    /\ landmark_objs' = UpdateLandmarkObjs(landmark_objs, lms, landmark_params,
                                           SetToSeq(DOMAIN landmark_params))
    /\ lms' = UpdatedLandmarkMap(lms, landmark_params)
    /\ landmark_maps' = (OutputRef :> lms') @@ landmark_maps
    /\ landmarks' = OutputRef
    /\ pc' = "update_cameras"
    /\ UNCHANGED <<d_, caller, cameras, tracks, camera_maps, camera_objs, intrinsics_objs,
                   track_sets, cams, trks, params, problem, constant_intrinsics, loss, solver>>

\* the cameras and intrinsics update_camera_parameters constructs
update_camera_parameters(ext_params, int_params, int_map, d) ==
    LET ndp == num_distortion_params(d.lens_distortion_type) IN
    [ intrinsics |-> [ r \in { NewIntrinsicsRef(g) : g \in DOMAIN int_params } |->
                         update_camera_intrinsics(int_params[r - Cardinality(IntrinsicsRefs)], ndp) ],
      cameras    |-> [ r \in { NewCameraRef(f) : f \in DOMAIN ext_params } |->
                         LET f == r - MaxFrame IN
                         update_camera_extrinsics(ext_params[f], NewIntrinsicsRef(int_map[f])) ],
      map        |-> [ f \in DOMAIN ext_params |-> NewCameraRef(f) ] ]

\* the problem destroys the loss functions of its residual blocks, each once
ProblemOwnsLoss(p, lf) == lf # NullRef /\ \E r \in Range(p.residual_blocks) : r.loss = lf

\* ---- optimize, lines 315-319: the optimized cameras, and the return ----
UpdateCameras ==
    /\ pc = "update_cameras"
    /\ LET u == update_camera_parameters(camera_params, camera_intr_params,
                                         frame_to_intr_map, d_) IN
        /\ intrinsics_objs' = intrinsics_objs @@ u.intrinsics
        /\ camera_objs' = camera_objs @@ u.cameras
        /\ camera_maps' = (OutputRef :> u.map) @@ camera_maps
    /\ cameras' = OutputRef
    /\ loss_deleted' = IF ProblemOwnsLoss(problem, loss_func)
                       THEN loss_deleted + 1 ELSE loss_deleted
    /\ pc' = "returned"
    /\ UNCHANGED <<d_, caller, landmarks, tracks, landmark_maps, landmark_objs, track_sets,
                   containers, params, problem, constant_intrinsics, loss_func,
                   loss_func_used, solver>>

Next ==
    \/ OptimizeMissingInput
    \/ ExtractParameters
    \/ CreateProblem
    \/ AddResiduals
    \/ ApplyConstraints
    \/ ReleaseLoss
    \/ Solve
    \/ UpdateLandmarks
    \/ UpdateCameras

Spec == Init /\ [][Next]_vars

\* ---- repeated optimize calls on one algorithm object ----
Restrict(f, S) == [ x \in DOMAIN f \cap S |-> f[x] ]

\* lines 191-195: the caller, after a call has returned, calls optimize again
\* on the same object with the collections it first passed; it drops the
\* collections the previous call returned.  optimize's locals are out of scope
\* between the calls: they keep whatever the previous call left.
OptimizeAgain ==
    /\ pc = "returned"
    /\ calls < MaxCalls
    /\ calls' = calls + 1
    /\ pc' = "call"
    /\ cameras' = IF InputRef \in DOMAIN camera_maps THEN InputRef ELSE NullRef
    /\ landmarks' = IF InputRef \in DOMAIN landmark_maps THEN InputRef ELSE NullRef
    /\ camera_maps' = Restrict(camera_maps, {InputRef})
    /\ landmark_maps' = Restrict(landmark_maps, {InputRef})
    /\ camera_objs' = Restrict(camera_objs, FrameIds)
    /\ intrinsics_objs' = Restrict(intrinsics_objs, IntrinsicsRefs)
    /\ landmark_objs' = Restrict(landmark_objs, TrackIds)
    /\ solver_calls' = 0
    /\ loss_deleted' = 0
    /\ UNCHANGED <<d_, in_config, tracks, track_sets, containers, params, problem,
                   constant_intrinsics, loss_func, loss_func_used, summary>>

\* the calls of a caller that passes cameras and both landmarks, and a track
\* set of at most one track or none
InitCalls ==
    /\ Init
    /\ cameras = InputRef /\ landmarks = InputRef
    /\ DOMAIN landmark_maps[InputRef] = TrackIds
    /\ tracks # NullRef => Len(track_sets[InputRef]) <= 1

NextCalls == Next \/ OptimizeAgain

SpecCalls == InitCalls /\ [][NextCalls]_vars

\* ---- the configuration of a newly constructed algorithm object ----
\* lines 64-72 and 96-101: the constructed object, not yet given to optimize
InitConfig ==
    /\ Init
    /\ d_ = priv("TRIVIAL_LOSS", TRUE, "NO_DISTORTION",
                 [fl |-> TRUE, pp |-> FALSE, ar |-> FALSE, sk |-> FALSE,
                  k1 |-> TRUE, k2 |-> TRUE])
    /\ cameras = NullRef /\ landmarks = NullRef /\ tracks = NullRef

NextConfig == SetConfiguration

SpecConfig == InitConfig /\ [][NextConfig]_vars


\* ---- properties ----
\* the caller passed a camera collection, a landmark collection and a track set
InputsPresent ==
    /\ InputRef \in DOMAIN camera_maps
    /\ InputRef \in DOMAIN landmark_maps
    /\ InputRef \in DOMAIN track_sets

InputCameraMap == camera_maps[InputRef]
InputLandmarkMap == landmark_maps[InputRef]
InputTracks == track_sets[InputRef]

AfterSolve == pc \in {"update_landmarks", "update_cameras", "returned"}

\* C1: when optimize returns from a call with non-null cameras, landmarks and
\* tracks, the collection `cameras` designates has the frame IDs of the input
\* camera collection and the collection `landmarks` designates has the track
\* IDs of the input landmark collection, whatever the tracks contain.
C1_MembershipPreserved ==
    (pc = "returned" /\ InputsPresent) =>
        /\ DOMAIN camera_maps[cameras] = DOMAIN InputCameraMap
        /\ DOMAIN landmark_maps[landmarks] = DOMAIN InputLandmarkMap

\* a returned call whose tracks name an absent landmark and an absent frame
C1_Witness ==
    /\ pc = "returned" /\ InputsPresent
    /\ cameras = OutputRef /\ landmarks = OutputRef
    /\ DOMAIN InputCameraMap # {} /\ DOMAIN InputLandmarkMap # {}
    /\ \E i \in DOMAIN InputTracks : InputTracks[i].id \notin DOMAIN InputLandmarkMap
    /\ \E i \in DOMAIN InputTracks : \E j \in DOMAIN InputTracks[i].history :
           InputTracks[i].history[j].frame_id \notin DOMAIN InputCameraMap

\* C2: when any of the three collections is null, the step taken from the call
\* is the return: no problem is built, the solver is not called, and `cameras`
\* and `landmarks` designate the same collections with the same entities.
C2_MissingInputReturns ==
    [][ (pc = "call" /\ (cameras = NullRef \/ landmarks = NullRef \/ tracks = NullRef))
        => /\ pc' = "returned"
           /\ problem' = EmptyProblem /\ solver_calls' = 0 /\ loss_func' = NullRef
           /\ UNCHANGED <<refs, heap>> ]_vars

\* a call with cameras and landmarks but a null track set has returned
C2_Witness ==
    /\ pc = "returned"
    /\ tracks = NullRef /\ cameras = InputRef /\ landmarks = InputRef
    /\ DOMAIN InputCameraMap # {} /\ DOMAIN InputLandmarkMap # {}
    /\ solver_calls = 0

EmptyInput ==
    /\ InputsPresent
    /\ DOMAIN InputCameraMap = {} \/ DOMAIN InputLandmarkMap = {}

C4_InvalidNeverSolved ==
    ~check_configuration(d_) =>
        /\ solver_calls = 0
        /\ cameras # OutputRef /\ landmarks # OutputRef

\* C4 amended: optimize makes no validity check of its own: every call that
\* gets past the solve step has invoked the solver exactly once, valid options
\* or not; on invalid options the solver does no iteration and the call still
\* returns with both collections replaced.
C4_SolverInvokedUnchecked ==
    /\ solver_calls <= 1
    /\ (AfterSolve /\ InputsPresent) =>
         /\ solver_calls = 1
         /\ ~check_configuration(d_) => summary.num_iterations = 0
    /\ (pc = "returned" /\ InputsPresent) =>
         cameras = OutputRef /\ landmarks = OutputRef

\* a returned call under an invalid solver configuration, the solver invoked
C4_Witness ==
    /\ pc = "returned" /\ InputsPresent
    /\ ~check_configuration(d_)
    /\ solver_calls = 1
    /\ problem.residual_blocks # <<>>

\* the (track, state) pairs whose landmark and camera have parameter blocks
ValidObservations ==
    { ij \in (DOMAIN trks) \X FrameIds :
        /\ ij[2] \in DOMAIN trks[ij[1]].history
        /\ trks[ij[1]].id \in DOMAIN landmark_params
        /\ trks[ij[1]].history[ij[2]].frame_id \in DOMAIN camera_params }

ResidualsAdded == pc \in {"apply_constraints", "release_loss", "solve", "aborted"} \/ AfterSolve

\* C5: once the residuals are added, they correspond one to one to the pairs
\* (track, state of its history) whose track ID has a landmark block and whose
\* frame has an extrinsics block, and each is attached to the intrinsics block
\* of its frame, the extrinsics block of its frame and the landmark block of
\* its track.
C5_ResidualsMatchObservations ==
    (ResidualsAdded /\ InputsPresent) =>
        LET R == problem.residual_blocks IN
        /\ Len(R) = Cardinality(ValidObservations)
        /\ { R[k].cost.obs : k \in DOMAIN R } = ValidObservations
        /\ \A k \in DOMAIN R :
             LET t  == trks[R[k].cost.obs[1]]
                 ts == t.history[R[k].cost.obs[2]]
             IN /\ R[k].intr = IntrBlock(frame_to_intr_map[ts.frame_id])
                /\ R[k].cam = CamBlock(ts.frame_id)
                /\ R[k].lm = LmBlock(t.id)

\* residuals were added while a track was skipped for its landmark and a state
\* was skipped for its frame
C5_Witness ==
    /\ ResidualsAdded /\ InputsPresent
    /\ problem.residual_blocks # <<>>
    /\ \E i \in DOMAIN trks : trks[i].id \notin DOMAIN landmark_params /\ trks[i].history # <<>>
    /\ \E i \in DOMAIN trks : \E j \in DOMAIN trks[i].history :
         /\ trks[i].id \in DOMAIN landmark_params
         /\ trks[i].history[j].frame_id \notin DOMAIN camera_params


FullyFiltered(i) ==
    \/ InputTracks[i].id \notin DOMAIN InputLandmarkMap
    \/ /\ InputTracks[i].history # <<>>
       /\ \A j \in DOMAIN InputTracks[i].history :
            InputTracks[i].history[j].frame_id \notin DOMAIN InputCameraMap

\* C7: a call on cameras and landmarks whose tracks all contribute no residual
\* (landmark absent, or every state of an absent frame), one of them a track of
\* a present landmark with a single state of an absent frame, does not fail,
\* whatever intrinsics are held constant.
C7_FilteredTracksNoFailure ==
    ( /\ InputsPresent
      /\ DOMAIN InputCameraMap # {} /\ DOMAIN InputLandmarkMap # {}
      /\ \A i \in DOMAIN InputTracks : FullyFiltered(i)
      /\ \E i \in DOMAIN InputTracks :
           /\ InputTracks[i].id \in DOMAIN InputLandmarkMap
           /\ Len(InputTracks[i].history) = 1 )
    => pc # "aborted"

\* the parameters extracted from the input collections
InputExtraction ==
    extract_camera_parameters(InputCameraMap, camera_objs, intrinsics_objs, d_)

NumIntrinsics == NumBaseIntrinsics + num_distortion_params(d_.lens_distortion_type)

AllIntrinsicsConstant ==
    \A i \in 0..(NumIntrinsics - 1) : i \in Range(constant_intrinsics)

\* C8: when every intrinsic parameter index is in the constant list, the
\* intrinsics blocks after the solver are those extracted from the input, and
\* the returned cameras carry exactly those values.
C8_ConstantIntrinsicsUnchanged ==
    (AfterSolve /\ InputsPresent /\ AllIntrinsicsConstant) =>
        /\ camera_intr_params = InputExtraction.int_params
        /\ pc = "returned" =>
             \A f \in DOMAIN camera_maps[OutputRef] :
                 intrinsics_objs[camera_objs[camera_maps[OutputRef][f]].intrinsics]
                   = update_camera_intrinsics(
                         InputExtraction.int_params[InputExtraction.int_map[f]],
                         num_distortion_params(d_.lens_distortion_type))

\* a returned call with all intrinsics constant in which the solver moved the
\* extrinsics and the landmarks
C8_Witness ==
    /\ pc = "returned" /\ InputsPresent /\ AllIntrinsicsConstant
    /\ summary.num_iterations > 0
    /\ Len(camera_intr_params) = 2
    /\ \E f \in DOMAIN camera_params : camera_params[f] # InputExtraction.ext_params[f]
    /\ \E t \in DOMAIN landmark_params :
         landmark_params[t] # landmark_objs[InputLandmarkMap[t]].loc

OutputLandmark(t) == landmark_objs[landmark_maps[OutputRef][t]]
OutputCamera(f) == camera_objs[camera_maps[OutputRef][f]]
InputCameraOf(f) == camera_objs[InputCameraMap[f]]

ZeroIterationReturn ==
    pc = "returned" /\ InputsPresent /\ summary.num_iterations = 0

C10_InputsNotMutated ==
    [][ /\ \A r \in DOMAIN camera_maps :
             r \in DOMAIN camera_maps' /\ camera_maps'[r] = camera_maps[r]
        /\ \A r \in DOMAIN camera_objs :
             r \in DOMAIN camera_objs' /\ camera_objs'[r] = camera_objs[r]
        /\ \A r \in DOMAIN intrinsics_objs :
             r \in DOMAIN intrinsics_objs' /\ intrinsics_objs'[r] = intrinsics_objs[r]
        /\ \A r \in DOMAIN landmark_maps :
             r \in DOMAIN landmark_maps' /\ landmark_maps'[r] = landmark_maps[r]
        /\ \A r \in DOMAIN landmark_objs :
             r \in DOMAIN landmark_objs' /\ landmark_objs'[r] = landmark_objs[r]
        /\ landmarks' # landmarks =>
             /\ landmarks' \notin DOMAIN landmark_maps
             /\ DOMAIN landmark_maps'[landmarks'] = DOMAIN landmark_maps[landmarks]
             /\ \A t \in DOMAIN landmark_maps[landmarks] :
                  LET old == landmark_maps[landmarks][t]
                      new == landmark_maps'[landmarks'][t]
                  IN /\ new \notin DOMAIN landmark_objs
                     /\ landmark_objs'[new] =
                          [ landmark_objs[old] EXCEPT !.loc = landmark_params[t] ]
        /\ cameras' # cameras =>
             /\ cameras' \notin DOMAIN camera_maps
             /\ \A f \in DOMAIN camera_maps'[cameras'] :
                  camera_maps'[cameras'][f] \notin DOMAIN camera_objs
      ]_vars

\* a returned call whose output landmark differs from the input landmark in its
\* position, the input landmark holding its original value
C10_Witness ==
    /\ pc = "returned" /\ InputsPresent
    /\ landmarks = OutputRef /\ cameras = OutputRef
    /\ \E t \in DOMAIN InputLandmarkMap :
         /\ OutputLandmark(t).loc # landmark_objs[InputLandmarkMap[t]].loc
         /\ OutputLandmark(t).attrs = landmark_objs[InputLandmarkMap[t]].attrs
         /\ landmark_objs[InputLandmarkMap[t]] = InputLandmark(t)


\* the intrinsics blocks 1..n in the order of the loop of lines 278-292
IntrinsicsBlocks(n) == [ g \in 1..n |-> IntrBlock(g) ]

ConstraintsApplied == pc \in {"release_loss", "solve"} \/ AfterSolve

\* C11 as stated: once the constraints are applied, every intrinsics group is
\* set constant when the constant-index list is longer than the block (5+D
\* parameters), and otherwise, when the list is not empty, every group has the
\* subset-freeze of the listed indices and is not set constant.
C11_ConstantOnlyWhenExceeding ==
    (ConstraintsApplied /\ InputsPresent) =>
        LET blocks == Range(IntrinsicsBlocks(Len(camera_intr_params))) IN
        IF Len(constant_intrinsics) > NumIntrinsics
        THEN problem.constant_blocks = blocks /\ problem.parameterizations = {}
        ELSE IF constant_intrinsics # <<>>
             THEN /\ problem.constant_blocks = {}
                  /\ problem.parameterizations =
                       { [ block |-> b, size |-> NumIntrinsics,
                           constant |-> constant_intrinsics ] : b \in blocks }
             ELSE problem.constant_blocks = {} /\ problem.parameterizations = {}

\* C11 (amended): the constant-index list is the one the camera options
\* enumerate; once the constraints are applied, one constraint operation was
\* called per intrinsics group, in group order, when the list is not empty and
\* none when it is empty; every group is set constant, with no subset-freeze,
\* when the list has at least 5+D indices (all of them), and every group has
\* the subset-freeze of exactly the listed indices over 5+D parameters when the
\* list is not empty and shorter.  When the call ends in the constraint step,
\* the operations called are those of the groups before the first group the
\* problem does not hold.
C11_ConstantWhenAllListed ==
    (InputsPresent /\ (ConstraintsApplied \/ pc = "aborted")) =>
        LET n      == Len(camera_intr_params)
            called == problem.constrained
            blocks == Range(called)
        IN
        /\ constant_intrinsics = enumerate_constant_intrinsics(d_)
        /\ IF pc = "aborted"
           THEN /\ constant_intrinsics # <<>>
                /\ Len(called) < n
                /\ called = IntrinsicsBlocks(Len(called))
                /\ IntrBlock(Len(called) + 1) \notin ParameterBlocks(problem)
           ELSE called = IF constant_intrinsics = <<>> THEN <<>> ELSE IntrinsicsBlocks(n)
        /\ IF Len(constant_intrinsics) >= NumIntrinsics
           THEN problem.constant_blocks = blocks /\ problem.parameterizations = {}
           ELSE /\ problem.constant_blocks = {}
                /\ problem.parameterizations =
                     { [ block |-> b, size |-> NumIntrinsics,
                         constant |-> constant_intrinsics ] : b \in blocks }

\* the constraints are applied in a call on two cameras that share one
\* intrinsics group, with exactly 5+D constant indices: one operation was
\* called, and it set the group's block constant
C11_Witness ==
    /\ pc = "release_loss" /\ InputsPresent
    /\ Cardinality(DOMAIN camera_params) = 2
    /\ Len(camera_intr_params) = 1
    /\ Len(constant_intrinsics) = NumIntrinsics
    /\ problem.constrained = <<IntrBlock(1)>>
    /\ problem.constant_blocks = {IntrBlock(1)}
    /\ problem.parameterizations = {}


\* C12: after set_configuration(c), get_configuration reports, for every key
\* c sets (verbose, the loss function type and scale, the solver-specific
\* group, the camera-constraint group), the value c gives it.
C12_ConfigurationReported ==
    \A k \in DOMAIN in_config : get_configuration(d_)[k] = in_config[k]


\* the landmark parameter vectors of the landmarks passed to the current call
InputLandmarkParams ==
    [ t \in DOMAIN InputLandmarkMap |-> landmark_objs[InputLandmarkMap[t]].loc ]

\* the order of the steps of optimize, and the caller's next call
StepOrder ==
    { <<"call", "returned">>, <<"call", "create_problem">>,
      <<"create_problem", "add_residuals">>, <<"add_residuals", "apply_constraints">>,
      <<"apply_constraints", "release_loss">>, <<"apply_constraints", "aborted">>,
      <<"release_loss", "solve">>, <<"solve", "update_landmarks">>,
      <<"update_landmarks", "update_cameras">>, <<"update_cameras", "returned">>,
      <<"returned", "call">> }

BeforeSolve ==
    pc \in {"create_problem", "add_residuals", "apply_constraints", "release_loss", "solve"}

\* in every call, the first or a later one on the same object: the parameter
\* vectors, until the solver runs, are those of the entities passed to this
\* call; the problem is empty when the residuals are about to be added and
\* holds afterwards only the residuals of this call's observations, on blocks
\* of this call's entities; the solver has been invoked once exactly from the
\* solve step on, and `landmarks` and `cameras` designate what the caller
\* passed until then
FreshPerCall ==
    /\ solver_calls <= 1
    /\ solver_calls = 1 <=> (AfterSolve /\ (pc = "returned" => InputsPresent))
    /\ landmarks = OutputRef => solver_calls = 1
    /\ cameras = OutputRef => solver_calls = 1 /\ landmarks = OutputRef
    /\ (BeforeSolve /\ InputsPresent) =>
         /\ landmark_params = InputLandmarkParams
         /\ camera_params = InputExtraction.ext_params
         /\ camera_intr_params = InputExtraction.int_params
         /\ frame_to_intr_map = InputExtraction.int_map
    /\ pc = "add_residuals" => problem = EmptyProblem
    /\ (ResidualsAdded /\ InputsPresent) =>
         /\ Len(problem.residual_blocks) = Cardinality(ValidObservations)
         /\ ParameterBlocks(problem) \subseteq
                { IntrBlock(g) : g \in DOMAIN InputExtraction.int_params }
                \cup { CamBlock(f) : f \in DOMAIN InputCameraMap }
                \cup { LmBlock(t) : t \in DOMAIN InputLandmarkMap }

\* a step of a call follows the order of the steps: residuals are added only in
\* the residual step, constraints only in the constraint step, the solver is
\* invoked only in the solve step, and the caller's references and the
\* collections and objects they reach change only after the solver returned
StepInOrder ==
    /\ pc' # pc => <<pc, pc'>> \in StepOrder
    /\ (problem'.residual_blocks # problem.residual_blocks /\ problem'.residual_blocks # <<>>)
         => pc = "add_residuals"
    /\ (problem'.constrained # problem.constrained /\ problem'.constrained # <<>>)
         => pc = "apply_constraints"
    /\ solver_calls' > solver_calls => pc = "solve"
    /\ (landmarks' # landmarks /\ pc # "returned")
         => pc = "update_landmarks" /\ solver_calls = 1
    /\ (cameras' # cameras /\ pc # "returned")
         => pc = "update_cameras" /\ solver_calls = 1
    /\ (heap' # heap /\ pc # "returned") => solver_calls = 1

\* C13: within every optimize call the steps occur in the order extraction,
\* all residuals, intrinsics constraints, one solver invocation, marshalling;
\* `landmarks` and `cameras` are reassigned only after the solver has returned;
\* and the parameter blocks of a call are built only from the entities passed
\* to it, also in a call that follows another on the same object.
C13_OrderedAndFresh == []FreshPerCall /\ [][StepInOrder]_vars

\* a second call on the same object has extracted its parameters from the
\* entities passed to it, after a first call whose solver iterated on a problem
\* that held the block of landmark 1
C13_Witness ==
    /\ calls = 2 /\ pc = "create_problem"
    /\ summary.num_iterations > 0
    /\ problem.residual_blocks # <<>>
    /\ LmBlock(1) \in ParameterBlocks(problem)
    /\ landmark_params = InputLandmarkParams
    /\ DOMAIN camera_params # {}


\* C14: when optimize is about to constrain the intrinsics with a non-empty
\* constant-index list, the block of every intrinsics group it will pass to
\* the problem's constraint operations belongs to the problem: at least one
\* residual was added on it.
C14_ConstrainedBlocksAdded ==
    (pc = "apply_constraints" /\ constant_intrinsics # <<>>) =>
        \A g \in DOMAIN camera_intr_params :
            \E k \in DOMAIN problem.residual_blocks :
                problem.residual_blocks[k].intr = IntrBlock(g)
====
